---- MODULE Spec2Model ----
(***************************************************************************)
(* TimeTracker back end: the approval workflow over time_logs, the tenant  *)
(* isolation guard, the role check and the two storage back ends           *)
(* (PostgreSQL pool, embedded SQLite) behind config/database-factory.js.   *)
(*                                                                         *)
(* A request is a sequence of steps separated by the handler's awaits; a   *)
(* step is one action.  Requests run in the slots Reqs and interleave at   *)
(* the awaits.  Timestamps are ticks of a logical clock; 0 stands for SQL  *)
(* NULL in a timestamp column, "NULL" for SQL NULL / undefined elsewhere.  *)
(***************************************************************************)
EXTENDS Integers, Sequences, FiniteSets, TLC

\* Number of request slots (requests that can be in flight together).
NumReq == 2
\* Longest timeLogIds list of a bulk request.
MaxIds == 2
\* Rows POST /api/log/time may add in one run.
MaxCreated == 1
\* Rows POST /api/log/screenshot may add in one run.
MaxShots == 1

NULL == "NULL"

Reqs == 1..NumReq

(***************************************************************************)
(* Stored data that no modelled request changes: users, projects, tasks.   *)
(***************************************************************************)
users ==
  [u1 |-> [organization_id |-> "o1", role |-> "admin",    deleted_at |-> 0],
   u2 |-> [organization_id |-> "o1", role |-> "manager",  deleted_at |-> 0],
   u3 |-> [organization_id |-> "o1", role |-> "employee", deleted_at |-> 0],
   u4 |-> [organization_id |-> "o2", role |-> "admin",    deleted_at |-> 0]]

UserIds == DOMAIN users

projects ==
  [p1 |-> [organization_id |-> "o1", deleted_at |-> 0],
   p2 |-> [organization_id |-> "o2", deleted_at |-> 0],
   p3 |-> [organization_id |-> "o1", deleted_at |-> 1]]

tasks ==
  [k1 |-> [organization_id |-> "o1", deleted_at |-> 0],
   k2 |-> [organization_id |-> "o2", deleted_at |-> 0]]

\* req.user as authenticate attaches it.
ReqUser(u) ==
  [id |-> u, organizationId |-> users[u].organization_id, role |-> users[u].role]

Actors == {ReqUser(u) : u \in UserIds}

\* The actors an approval handler is meant to serve.
Approvers == {a \in Actors : a.role \in {"admin", "manager"}}

(***************************************************************************)
(* Rows of time_logs and screenshots.  A table is a function from row keys *)
(* to rows; present = FALSE marks a key with no row.                       *)
(***************************************************************************)
OldKeys == {"t1", "t2", "t3"}
NewKeySeq == <<"t4", "t5", "t6">>
NewKeys == {NewKeySeq[i] : i \in 1..MaxCreated}
TimeLogKeys == OldKeys \cup NewKeys

\* Times of day as the ISO 8601 strings of start_time and end_time, and
\* their order.
Times == {"09:00", "17:00"}
TimeOf(t) == IF t = "09:00" THEN 9 ELSE 17

NoRow ==
  [present |-> FALSE, id |-> NULL, organization_id |-> NULL, user_id |-> NULL,
   project_id |-> NULL, task_id |-> NULL, start_time |-> NULL, end_time |-> NULL,
   duration_ms |-> 0, activity_score |-> NULL, status |-> NULL,
   approved_by |-> NULL, approved_at |-> 0, updated_at |-> 0, deleted_at |-> 0]

PendingRow(k, org, usr, prj, tsk) ==
  [present |-> TRUE, id |-> k, organization_id |-> org, user_id |-> usr,
   project_id |-> prj, task_id |-> tsk, start_time |-> "09:00",
   end_time |-> "17:00", duration_ms |-> 1, activity_score |-> "0",
   status |-> "pending",
   approved_by |-> NULL, approved_at |-> 0, updated_at |-> 1, deleted_at |-> 0]

\* The states the second entry of organization o1 can be stored in at start.
T2Variants ==
  { PendingRow("t2", "o1", "u3", "p1", "k1"),
    [PendingRow("t2", "o1", "u3", "p1", "k1") EXCEPT
       !.status = "approved", !.approved_by = "u1", !.approved_at = 1],
    [PendingRow("t2", "o1", "u3", "p1", "k1") EXCEPT !.deleted_at = 1],
    NoRow }

ShotOldKeys == {"s1", "s2"}
ShotNewKeySeq == <<"s3", "s4", "s5">>
ShotNewKeys == {ShotNewKeySeq[i] : i \in 1..MaxShots}
ShotKeys == ShotOldKeys \cup ShotNewKeys

NoShot ==
  [present |-> FALSE, id |-> NULL, organization_id |-> NULL, user_id |-> NULL,
   time_log_id |-> NULL, captured_at |-> NULL, deleted_at |-> 0]

VARIABLES
  DB_TYPE,      \* "postgresql" or "sqlite": the store database-factory.js selected
  time_logs,    \* the time_logs table
  screenshots,  \* the screenshots table
  clock,        \* CURRENT_TIMESTAMP
  req,          \* per slot: route, req.user, req.body / req.query
  pc,           \* per slot: where the request stands
  local,        \* per slot: the handler's local variables
  res,          \* per slot: the response sent
  env,          \* process.env: NODE_ENV and ENCRYPTION_KEY
  server,       \* the process: "loading", "loaded", "listening" or "exited"
  db,           \* database-sqlite.js: the handle db
  dbFile,       \* ~/.time-tracker/database.sqlite: whether it exists, its tables
  initialization,  \* where initializeDatabase() stands
  encryptionKey,   \* what the calls of getEncryptionKey() gave, in order
  transaction,  \* the embedded connection's open transaction, if any
  organizations,   \* the organizations rows registration created (by slug)
  registeredUsers  \* the users rows registration created

startupVars == <<env, server, db, dbFile, initialization, encryptionKey>>

registrationVars == <<transaction, organizations, registeredUsers>>

vars == <<DB_TYPE, time_logs, screenshots, clock, req, pc, local, res,
          startupVars, registrationVars>>

NoReq ==
  [route |-> NULL, user |-> ReqUser("u1"), timeLogId |-> NULL, timeLogIds |-> <<>>,
   action |-> NULL, projectId |-> NULL, taskId |-> NULL, userId |-> NULL,
   id |-> NULL, startTime |-> "09:00", endTime |-> "17:00", durationMs |-> 1,
   email |-> NULL, organizationSlug |-> NULL, table |-> NULL]

\* What a call of validateOrganizationResource was given and returned; read:
\* the organization_id values its SELECT returned.
NoValidation ==
  [table |-> NULL, id |-> NULL, error |-> FALSE, valid |-> FALSE, message |-> NULL,
   read |-> {}]

\* validated: the <<table, id>> the guard answered valid for; checked: the
\* <<table, id, organization_id>> of the rows the handler's own lookups found.
NoLocal ==
  [timeLog |-> NULL, pendingIds |-> <<>>, updated |-> {},
   validation |-> NoValidation, validated |-> {}, checked |-> {},
   client |-> NULL, statements |-> <<>>, released |-> 0]

NoRes ==
  [status |-> 0, message |-> <<>>, id |-> NULL, entryStatus |-> NULL,
   approvedAt |-> 0, approvedBy |-> NULL, approved |-> 0, total |-> 0,
   skipped |-> 0, rows |-> {}, thrown |-> FALSE, records |-> {}, decrypted |-> {}]

Reply(code, msg) == [NoRes EXCEPT !.status = code, !.message = msg]

InitData ==
  /\ DB_TYPE \in {"postgresql", "sqlite"}
  /\ \E t2 \in T2Variants :
       time_logs =
         [k \in TimeLogKeys |->
            CASE k = "t1" -> PendingRow("t1", "o1", "u3", "p1", "k1")
              [] k = "t2" -> t2
              [] k = "t3" -> PendingRow("t3", "o2", "u4", "p2", "k2")
              [] OTHER -> NoRow]
  /\ screenshots =
       [k \in ShotKeys |->
          CASE k = "s1" -> [present |-> TRUE, id |-> "s1", organization_id |-> "o1",
                            user_id |-> "u3", time_log_id |-> "t1",
                            captured_at |-> "09:00", deleted_at |-> 0]
            [] k = "s2" -> [present |-> TRUE, id |-> "s2", organization_id |-> "o2",
                            user_id |-> "u4", time_log_id |-> NULL,
                            captured_at |-> "09:00", deleted_at |-> 0]
            [] OTHER -> NoShot]
  /\ clock = 2

(***************************************************************************)
(* The process and the embedded database file.                             *)
(***************************************************************************)
\* The tables createSchema creates, in the order of its list.
SchemaTables ==
  <<"organizations", "users", "projects", "tasks", "time_logs", "screenshots",
    "activity_logs", "wellness_logs", "refresh_tokens", "web_logs">>

RequiredTables == {SchemaTables[i] : i \in DOMAIN SchemaTables}

NoFile == [exists |-> FALSE, tables |-> {}]

\* initializeDatabase(): step is where it stands, dbExists what existsSync
\* answered, next the index of the table createSchema creates next.
NotStarted == [step |-> "none", dbExists |-> FALSE, next |-> 1]

Settled(outcome) == [NotStarted EXCEPT !.step = outcome]

NoTransaction == [active |-> FALSE]

NoRequests ==
  /\ req = [r \in Reqs |-> NoReq]
  /\ pc = [r \in Reqs |-> "idle"]
  /\ local = [r \in Reqs |-> NoLocal]
  /\ res = [r \in Reqs |-> NoRes]

NoRegistrations ==
  /\ transaction = NoTransaction
  /\ organizations = {}
  /\ registeredUsers = {}

\* The process after a start that succeeded: listening, and in embedded mode
\* the database open with every table.
Running ==
  /\ env = [NODE_ENV |-> "development", ENCRYPTION_KEY |-> NULL]
  /\ server = "listening"
  /\ db = IF DB_TYPE = "sqlite" THEN "open" ELSE NULL
  /\ dbFile = IF DB_TYPE = "sqlite"
              THEN [exists |-> TRUE, tables |-> RequiredTables] ELSE NoFile
  /\ initialization = IF DB_TYPE = "sqlite" THEN Settled("resolved") ELSE NotStarted
  /\ encryptionKey = <<>>

Init ==
  /\ InitData
  /\ NoRequests
  /\ Running
  /\ NoRegistrations

(***************************************************************************)
(* The store's query(text, params).  A query text is given by the numbers  *)
(* of its $n placeholders in the order they appear in the text; Bound      *)
(* gives the value each placeholder position is executed with.             *)
(***************************************************************************)
\* pool.query: $n is the n-th parameter.
pgBound(placeholders, params) ==
  [k \in 1..Len(placeholders) |->
     IF placeholders[k] <= Len(params) THEN params[placeholders[k]] ELSE NULL]

\* text.replace(/\$(\d+)/g, '?'): the k-th ? is the k-th parameter.
sqliteBound(placeholders, params) ==
  [k \in 1..Len(placeholders) |-> IF k <= Len(params) THEN params[k] ELSE NULL]

Bound(placeholders, params) ==
  IF DB_TYPE = "sqlite" THEN sqliteBound(placeholders, params)
  ELSE pgBound(placeholders, params)

Alive(row) == row.present /\ row.deleted_at = 0

\* column = value in a WHERE clause: never true of NULL.
SqlEq(a, b) == a # NULL /\ b # NULL /\ a = b

\* All orders a SELECT without ORDER BY may return the rows S in.
Orderings(S) ==
  {s \in [1..Cardinality(S) -> S] : \A i, j \in DOMAIN s : i # j => s[i] # s[j]}

Range(s) == {s[i] : i \in DOMAIN s}

NewStatus(action) == IF action = "approve" THEN "approved" ELSE "rejected"

Idle(r) == pc[r] = "idle"

Finish(r, reply) ==
  /\ pc' = [pc EXCEPT ![r] = "done"]
  /\ res' = [res EXCEPT ![r] = reply]

(***************************************************************************)
(* PUT /api/timesheets/approve, from the handler's first statement.        *)
(***************************************************************************)
StartApprove(r) ==
  /\ Idle(r)
  /\ \E a \in Approvers, id \in OldKeys, act \in {"approve", "reject"} :
       req' = [req EXCEPT ![r] =
                 [NoReq EXCEPT !.route = "approve", !.user = a,
                               !.timeLogId = id, !.action = act]]
  /\ pc' = [pc EXCEPT ![r] = "approve_check"]
  /\ UNCHANGED <<DB_TYPE, time_logs, screenshots, clock, local, res>>
  /\ UNCHANGED <<startupVars, registrationVars>>

\* Mutant of ApproveCheckRows: the lookup without the organization filter.
ApproveCheckRowsAnyOrg(r) ==
  LET b == Bound(<<1, 2>>, <<req[r].timeLogId, req[r].user.organizationId>>)
  IN {k \in TimeLogKeys : Alive(time_logs[k]) /\ SqlEq(time_logs[k].id, b[1])}

\* SELECT id, user_id, status FROM time_logs
\* WHERE id = $1 AND organization_id = $2 AND deleted_at IS NULL
ApproveCheckRows(r) ==
  LET b == Bound(<<1, 2>>, <<req[r].timeLogId, req[r].user.organizationId>>)
  IN {k \in TimeLogKeys :
        /\ Alive(time_logs[k])
        /\ SqlEq(time_logs[k].id, b[1])
        /\ SqlEq(time_logs[k].organization_id, b[2])}

\* What a lookup of time_logs that returned the rows at keys found.
Found(keys) ==
  {<<"time_logs", time_logs[k].id, time_logs[k].organization_id>> : k \in keys}

\* Mutant of ApproveStatusConflict: only a rejected entry is refused.
ApproveStatusConflictRejectedOnly(status) == status = "rejected"

\* timeLog.status !== 'pending'
ApproveStatusConflict(status) == status # "pending"

ApproveCheck(r) ==
  /\ pc[r] = "approve_check"
  /\ LET rows == ApproveCheckRows(r) IN
       IF rows = {}
       THEN /\ Finish(r, Reply(404, <<"Time log not found">>))
            /\ UNCHANGED local
       ELSE LET timeLog == time_logs[CHOOSE k \in rows : TRUE] IN
              IF ApproveStatusConflict(timeLog.status)
              THEN /\ Finish(r, Reply(400, <<"Time log is already", timeLog.status>>))
                   /\ local' = [local EXCEPT ![r].timeLog = timeLog.status,
                                             ![r].checked = @ \cup Found(rows)]
              ELSE /\ pc' = [pc EXCEPT ![r] = "approve_update"]
                   /\ local' = [local EXCEPT ![r].timeLog = timeLog.status,
                                             ![r].checked = @ \cup Found(rows)]
                   /\ UNCHANGED res
  /\ UNCHANGED <<DB_TYPE, time_logs, screenshots, clock, req>>
  /\ UNCHANGED <<startupVars, registrationVars>>

\* Mutant of ApproveUpdateRows: the UPDATE without its WHERE clause.
ApproveUpdateRowsNoWhere(idv) == {k \in TimeLogKeys : time_logs[k].present}

\* UPDATE time_logs SET status = $1, approved_by = $2, approved_at = now, updated_at = now
\* WHERE id = $3 RETURNING id, status, approved_at
ApproveUpdateRows(idv) ==
  {k \in TimeLogKeys : time_logs[k].present /\ SqlEq(time_logs[k].id, idv)}

\* Mutant of SetApproval: the SET clause without approved_by.
SetApprovalNoApprover(row, status, approver, now) ==
  [row EXCEPT !.status = status, !.approved_at = now, !.updated_at = now]

\* SET status = .., approved_by = .., approved_at = CURRENT_TIMESTAMP,
\*     updated_at = CURRENT_TIMESTAMP
SetApproval(row, status, approver, now) ==
  [row EXCEPT !.status = status, !.approved_by = approver,
              !.approved_at = now, !.updated_at = now]

ApproveUpdate(r) ==
  /\ pc[r] = "approve_update"
  /\ LET b == Bound(<<1, 2, 3>>,
                    <<NewStatus(req[r].action), req[r].user.id, req[r].timeLogId>>)
         rows == ApproveUpdateRows(b[3])
     IN /\ time_logs' =
             [k \in TimeLogKeys |->
                IF k \in rows THEN SetApproval(time_logs[k], b[1], b[2], clock)
                ELSE time_logs[k]]
        /\ local' = [local EXCEPT ![r].updated = rows]
        /\ IF rows = {}
           THEN \* updateResult.rows[0] is undefined: TypeError, caught
                Finish(r, Reply(500, <<"Failed to approve/reject time log">>))
           ELSE LET k == CHOOSE k \in rows : TRUE IN
                Finish(r, [Reply(200, <<"Time log", req[r].action, "d successfully">>)
                             EXCEPT !.id = time_logs'[k].id,
                                    !.entryStatus = time_logs'[k].status,
                                    !.approvedAt = time_logs'[k].approved_at,
                                    !.approvedBy = req[r].user.id])
  /\ clock' = clock + 1
  /\ UNCHANGED <<DB_TYPE, screenshots, req>>
  /\ UNCHANGED <<startupVars, registrationVars>>

(***************************************************************************)
(* PUT /api/timesheets/bulk-approve, from the handler's first statement.   *)
(***************************************************************************)
IdLists == UNION {[1..n -> OldKeys] : n \in 1..MaxIds}

StartBulk(r) ==
  /\ Idle(r)
  /\ \E a \in Approvers, ids \in IdLists, act \in {"approve", "reject"} :
       req' = [req EXCEPT ![r] =
                 [NoReq EXCEPT !.route = "bulk-approve", !.user = a,
                               !.timeLogIds = ids, !.action = act]]
  /\ pc' = [pc EXCEPT ![r] = "bulk_verify"]
  /\ UNCHANGED <<DB_TYPE, time_logs, screenshots, clock, local, res>>
  /\ UNCHANGED <<startupVars, registrationVars>>

\* SELECT id, status FROM time_logs
\* WHERE id IN ($2, .., $n+1) AND organization_id = $1 AND deleted_at IS NULL
\* with parameters [organizationId, ...timeLogIds]
BulkVerifyRows(r) ==
  LET ids == req[r].timeLogIds
      n == Len(ids)
      b == Bound([k \in 1..n |-> k + 1] \o <<1>>,
                 <<req[r].user.organizationId>> \o ids)
  IN {k \in TimeLogKeys :
        /\ Alive(time_logs[k])
        /\ \E i \in 1..n : SqlEq(time_logs[k].id, b[i])
        /\ SqlEq(time_logs[k].organization_id, b[n + 1])}

\* Mutant of BulkVerifyFails: the request is refused only when no id matched.
BulkVerifyFailsWhenEmpty(nrows, nids) == nrows = 0

\* verifyResult.rows.length !== timeLogIds.length
BulkVerifyFails(nrows, nids) == nrows # nids

BulkVerify(r) ==
  /\ pc[r] = "bulk_verify"
  /\ LET rows == BulkVerifyRows(r) IN
       IF BulkVerifyFails(Cardinality(rows), Len(req[r].timeLogIds))
       THEN /\ Finish(r, Reply(400,
                 <<"Some time logs were not found or do not belong to your organization">>))
            /\ UNCHANGED local
       ELSE \E order \in Orderings(rows) :
              LET IsPending(k) == time_logs[k].status = "pending"
                  pendingLogs == SelectSeq(order, IsPending)
              IN IF Len(pendingLogs) = 0
                 THEN /\ Finish(r, Reply(400,
                           <<"No pending time logs found in the selected entries">>))
                      /\ UNCHANGED local
                 ELSE /\ pc' = [pc EXCEPT ![r] = "bulk_update"]
                      /\ local' = [local EXCEPT
                           ![r].pendingIds = [i \in 1..Len(pendingLogs) |->
                                                time_logs[pendingLogs[i]].id],
                           ![r].checked = @ \cup Found(rows)]
                      /\ UNCHANGED res
  /\ UNCHANGED <<DB_TYPE, time_logs, screenshots, clock, req>>
  /\ UNCHANGED <<startupVars, registrationVars>>

\* Mutant of ApprovedByForeignKeyOk: approved_by without its foreign key.
ApprovedByForeignKeyAbsent(v) == TRUE

\* approved_by UUID REFERENCES users(id): PostgreSQL only; the SQLite schema
\* declares approved_by TEXT NULL without a foreign key.
ApprovedByForeignKeyOk(v) ==
  DB_TYPE = "sqlite" \/ v = NULL \/ v \in UserIds

\* UPDATE time_logs SET status = $1, approved_by = $n+2, approved_at = now, updated_at = now
\* WHERE id IN ($2, .., $n+1) AND status = 'pending' RETURNING id, status
\* with parameters [newStatus, req.user.id, ...pendingIds]
BulkUpdateBound(r) ==
  LET n == Len(local[r].pendingIds)
  IN Bound(<<1, n + 2>> \o [k \in 1..n |-> k + 1],
           <<NewStatus(req[r].action), req[r].user.id>> \o local[r].pendingIds)

BulkUpdateRows(inIds) ==
  {k \in TimeLogKeys :
     /\ time_logs[k].present
     /\ \E v \in inIds : SqlEq(time_logs[k].id, v)
     /\ time_logs[k].status = "pending"}

\* Mutant of BulkUpdate: the UPDATE written with its placeholders in the order
\* of the parameter list and without AND status = 'pending'.
BulkUpdateUnguarded(r) ==
  /\ pc[r] = "bulk_update"
  /\ LET rows == {k \in TimeLogKeys :
                   /\ time_logs[k].present
                   /\ \E i \in DOMAIN local[r].pendingIds :
                        SqlEq(time_logs[k].id, local[r].pendingIds[i])}
     IN /\ time_logs' =
             [k \in TimeLogKeys |->
                IF k \in rows
                THEN SetApproval(time_logs[k], NewStatus(req[r].action),
                                 req[r].user.id, clock)
                ELSE time_logs[k]]
        /\ local' = [local EXCEPT ![r].updated = rows]
        /\ Finish(r, [Reply(200, <<"time log(s)", req[r].action, "d successfully">>)
                        EXCEPT !.approved = Cardinality(rows),
                               !.total = Len(req[r].timeLogIds),
                               !.skipped = Len(req[r].timeLogIds)
                                             - Len(local[r].pendingIds)])
  /\ clock' = clock + 1
  /\ UNCHANGED <<DB_TYPE, screenshots, req>>
  /\ UNCHANGED <<startupVars, registrationVars>>

BulkUpdate(r) ==
  /\ pc[r] = "bulk_update"
  /\ LET n == Len(local[r].pendingIds)
         b == BulkUpdateBound(r)
         rows == BulkUpdateRows({b[i + 2] : i \in 1..n})
     IN IF rows # {} /\ ~ApprovedByForeignKeyOk(b[2])
        THEN \* the statement raises a foreign-key violation and changes nothing
             /\ Finish(r, Reply(500, <<"Failed to bulk approve/reject time logs">>))
             /\ UNCHANGED <<time_logs, local>>
        ELSE /\ time_logs' =
                  [k \in TimeLogKeys |->
                     IF k \in rows THEN SetApproval(time_logs[k], b[1], b[2], clock)
                     ELSE time_logs[k]]
             /\ local' = [local EXCEPT ![r].updated = rows]
             /\ Finish(r, [Reply(200, <<"time log(s)", req[r].action, "d successfully">>)
                             EXCEPT !.approved = Cardinality(rows),
                                    !.total = Len(req[r].timeLogIds),
                                    !.skipped = Len(req[r].timeLogIds) - n])
  /\ clock' = clock + 1
  /\ UNCHANGED <<DB_TYPE, screenshots, req>>
  /\ UNCHANGED <<startupVars, registrationVars>>

Next ==
  \E r \in Reqs :
    \/ StartApprove(r)
    \/ ApproveCheck(r)
    \/ ApproveUpdate(r)
    \/ StartBulk(r)
    \/ BulkVerify(r)
    \/ BulkUpdate(r)

Spec == Init /\ [][Next]_vars

(***************************************************************************)
(* middleware/auth.js: authorize, in front of the pending list, single and *)
(* bulk approve/reject and the payroll export.  authenticate has attached  *)
(* req.user and enforceOrganizationAccess has passed (every actor has an   *)
(* organization).                                                          *)
(***************************************************************************)
\* A JavaScript value: a string, or an array of strings.
JsString(x) == [kind |-> "string", str |-> x, items |-> <<>>]
JsArray(xs) == [kind |-> "array", str |-> "", items |-> xs]

\* Array.prototype.includes (SameValueZero) of a string: a string equals an
\* equal string and never an array.
Includes(list, x) ==
  \E i \in DOMAIN list : list[i].kind = "string" /\ list[i].str = x

\* authorize(...allowedRoles): allowedRoles is the list of the call's arguments.
\* 403 when the role is not included, 0 for next().
authorize(allowedRoles, role) ==
  IF ~Includes(allowedRoles, role) THEN 403 ELSE 0

\* The arguments of the routes' call authorize(['admin', 'manager']).
GatedRouteArguments == <<JsArray(<<"admin", "manager">>)>>

\* The handler a gated route continues with after next().
HandlerEntry(route) ==
  CASE route = "approve" -> "approve_check"
    [] route = "bulk-approve" -> "bulk_verify"
    [] route = "pending" -> "pending_handler"
    [] route = "payroll" -> "payroll_handler"

StartGated(r) ==
  /\ Idle(r)
  /\ \E a \in Actors :
       \/ \E id \in OldKeys, act \in {"approve", "reject"} :
            req' = [req EXCEPT ![r] =
                      [NoReq EXCEPT !.route = "approve", !.user = a,
                                    !.timeLogId = id, !.action = act]]
       \/ \E ids \in IdLists :
            req' = [req EXCEPT ![r] =
                      [NoReq EXCEPT !.route = "bulk-approve", !.user = a,
                                    !.timeLogIds = ids, !.action = "approve"]]
       \/ \E route \in {"pending", "payroll"} :
            req' = [req EXCEPT ![r] = [NoReq EXCEPT !.route = route, !.user = a]]
  /\ pc' = [pc EXCEPT ![r] = "authorize"]
  /\ UNCHANGED <<DB_TYPE, time_logs, screenshots, clock, local, res>>
  /\ UNCHANGED <<startupVars, registrationVars>>

Authorize(r) ==
  /\ pc[r] = "authorize"
  /\ IF authorize(GatedRouteArguments, req[r].user.role) = 403
     THEN Finish(r, Reply(403, <<"Insufficient permissions. Required role:",
                                 "admin,manager">>))
     ELSE /\ pc' = [pc EXCEPT ![r] = HandlerEntry(req[r].route)]
          /\ UNCHANGED res
  /\ UNCHANGED <<DB_TYPE, time_logs, screenshots, clock, req, local>>
  /\ UNCHANGED <<startupVars, registrationVars>>

(***************************************************************************)
(* middleware/multiTenancy.js: the tenant isolation guard.                 *)
(***************************************************************************)
\* The rows of a table as the guard's SELECT sees them.
TableRows(table) ==
  CASE table = "projects" ->
         {[id |-> p, organization_id |-> projects[p].organization_id,
           deleted_at |-> projects[p].deleted_at] : p \in DOMAIN projects}
    [] table = "tasks" ->
         {[id |-> t, organization_id |-> tasks[t].organization_id,
           deleted_at |-> tasks[t].deleted_at] : t \in DOMAIN tasks}
    [] table = "time_logs" ->
         {[id |-> time_logs[k].id, organization_id |-> time_logs[k].organization_id,
           deleted_at |-> time_logs[k].deleted_at] :
            k \in {x \in TimeLogKeys : time_logs[x].present}}

\* The rows of SELECT organization_id FROM <table> WHERE id = $1 AND deleted_at IS NULL
GuardRows(resourceId, resourceTable) ==
  LET b == Bound(<<1>>, <<resourceId>>)
  IN {x \in TableRows(resourceTable) : SqlEq(x.id, b[1]) /\ x.deleted_at = 0}

\* Mutant of validateOrganizationResource: the organization is not compared.
validateOrganizationResourceAnyOrg(user, resourceId, resourceTable, storageError) ==
  IF storageError
  THEN [valid |-> FALSE, message |-> "Validation failed"]
  ELSE LET b == Bound(<<1>>, <<resourceId>>)
           rows == {x \in TableRows(resourceTable) :
                      SqlEq(x.id, b[1]) /\ x.deleted_at = 0}
       IN IF rows = {}
          THEN [valid |-> FALSE, message |-> "Resource not found"]
          ELSE [valid |-> TRUE, message |-> NULL]

\* SELECT organization_id FROM <table> WHERE id = $1 AND deleted_at IS NULL;
\* storageError: the query rejects (the catch branch).
validateOrganizationResource(user, resourceId, resourceTable, storageError) ==
  IF storageError
  THEN [valid |-> FALSE, message |-> "Validation failed"]
  ELSE LET b == Bound(<<1>>, <<resourceId>>)
           rows == {x \in TableRows(resourceTable) :
                      SqlEq(x.id, b[1]) /\ x.deleted_at = 0}
       IN IF rows = {}
          THEN [valid |-> FALSE, message |-> "Resource not found"]
          ELSE IF (CHOOSE x \in rows : TRUE).organization_id # user.organizationId
          THEN [valid |-> FALSE,
                message |-> "Resource does not belong to your organization"]
          ELSE [valid |-> TRUE, message |-> NULL]

\* validateProject / validateTask: skipped when the id is missing, 403 when the
\* guard says invalid, next() otherwise.
ValidateStep(r, table, id, nextPc) ==
  IF id = NULL
  THEN /\ pc' = [pc EXCEPT ![r] = nextPc]
       /\ UNCHANGED <<local, res>>
  ELSE \E storageError \in BOOLEAN :
         LET validation == validateOrganizationResource(req[r].user, id, table,
                                                        storageError)
             called == [table |-> table, id |-> id, error |-> storageError,
                        valid |-> validation.valid, message |-> validation.message,
                        read |-> IF storageError THEN {}
                                 ELSE {x.organization_id : x \in GuardRows(id, table)}]
         IN IF ~validation.valid
            THEN /\ Finish(r, Reply(403, <<validation.message>>))
                 /\ local' = [local EXCEPT ![r].validation = called]
            ELSE /\ pc' = [pc EXCEPT ![r] = nextPc]
                 /\ local' = [local EXCEPT
                      ![r].validation = called,
                      ![r].validated = @ \cup {<<table, id>>}]
                 /\ UNCHANGED res

(***************************************************************************)
(* POST /api/log/time: validateProject, validateTask, validators, handler. *)
(***************************************************************************)
StartTime(r) ==
  /\ Idle(r)
  /\ \E a \in Actors, p \in DOMAIN projects \cup {NULL}, t \in DOMAIN tasks \cup {NULL} :
       req' = [req EXCEPT ![r] =
                 [NoReq EXCEPT !.route = "time", !.user = a,
                               !.projectId = p, !.taskId = t]]
  /\ pc' = [pc EXCEPT ![r] = "validateProject"]
  /\ UNCHANGED <<DB_TYPE, time_logs, screenshots, clock, local, res>>
  /\ UNCHANGED <<startupVars, registrationVars>>

\* A project and a task of the organization.
OwnProject(org) == IF org = "o1" THEN "p1" ELSE "p2"
OwnTask(org) == IF org = "o1" THEN "k1" ELSE "k2"

\* POST /api/log/time with the actor's own project and task and any times and
\* duration.
StartTimeRange(r) ==
  /\ Idle(r)
  /\ \E a \in Actors, s \in Times, e \in Times, d \in {0, 1} :
       req' = [req EXCEPT ![r] =
                 [NoReq EXCEPT !.route = "time", !.user = a,
                               !.projectId = OwnProject(a.organizationId),
                               !.taskId = OwnTask(a.organizationId),
                               !.startTime = s, !.endTime = e, !.durationMs = d]]
  /\ pc' = [pc EXCEPT ![r] = "validateProject"]
  /\ UNCHANGED <<DB_TYPE, time_logs, screenshots, clock, local, res>>
  /\ UNCHANGED <<startupVars, registrationVars>>

ValidateProject(r) ==
  /\ pc[r] = "validateProject"
  /\ ValidateStep(r, "projects", req[r].projectId, "validateTask")
  /\ UNCHANGED <<DB_TYPE, time_logs, screenshots, clock, req>>
  /\ UNCHANGED <<startupVars, registrationVars>>

ValidateTask(r) ==
  /\ pc[r] = "validateTask"
  /\ ValidateStep(r, "tasks", req[r].taskId, "time_handler")
  /\ UNCHANGED <<DB_TYPE, time_logs, screenshots, clock, req>>
  /\ UNCHANGED <<startupVars, registrationVars>>

\* Mutant of OwnedRows: the lookup without the organization filter.
OwnedRowsAnyOrg(table, id, org) ==
  LET b == Bound(<<1, 2>>, <<id, org>>)
  IN {x \in TableRows(table) : SqlEq(x.id, b[1]) /\ x.deleted_at = 0}

\* SELECT id FROM <table> WHERE id = $1 AND organization_id = $2 AND deleted_at IS NULL
OwnedRows(table, id, org) ==
  LET b == Bound(<<1, 2>>, <<id, org>>)
  IN {x \in TableRows(table) :
        SqlEq(x.id, b[1]) /\ SqlEq(x.organization_id, b[2]) /\ x.deleted_at = 0}

\* What a lookup of a table that returned rows found.
FoundIn(table, rows) == {<<table, x.id, x.organization_id>> : x \in rows}

\* The id column of an inserted row: uuid_generate_v4() by default on
\* PostgreSQL; the SQLite schema (id TEXT PRIMARY KEY) has no default.
InsertedId(k) == IF DB_TYPE = "sqlite" THEN NULL ELSE k

FreeKeys == {k \in NewKeys : ~time_logs[k].present}

\* CONSTRAINT valid_time_range CHECK (end_time > start_time) and CONSTRAINT
\* valid_duration CHECK (duration_ms > 0): in the PostgreSQL schema only.
CheckConstraintsOk(row) ==
  \/ DB_TYPE = "sqlite"
  \/ TimeOf(row.end_time) > TimeOf(row.start_time) /\ row.duration_ms > 0

CreateTimeLog(r) ==
  /\ pc[r] = "time_handler"
  /\ LET org == req[r].user.organizationId
         projectCheck == OwnedRows("projects", req[r].projectId, org)
         taskCheck == OwnedRows("tasks", req[r].taskId, org)
         row == [PendingRow(NULL, org, req[r].user.id,
                            req[r].projectId, req[r].taskId)
                   EXCEPT !.start_time = req[r].startTime,
                          !.end_time = req[r].endTime,
                          !.duration_ms = req[r].durationMs,
                          !.updated_at = clock]
     IN IF req[r].projectId = NULL \/ req[r].taskId = NULL \/ req[r].durationMs < 1
        THEN \* body('projectId').isUUID(), body('taskId').isUUID(),
             \* body('durationMs').isInt({ min: 1 })
             /\ Finish(r, Reply(400, <<"Validation failed">>))
             /\ UNCHANGED <<time_logs, clock, local>>
        ELSE IF projectCheck = {}
        THEN /\ Finish(r, Reply(403,
                  <<"Project not found or does not belong to your organization">>))
             /\ UNCHANGED <<time_logs, clock, local>>
        ELSE IF taskCheck = {}
        THEN /\ Finish(r, Reply(403,
                  <<"Task not found or does not belong to your organization">>))
             /\ local' = [local EXCEPT
                  ![r].checked = @ \cup FoundIn("projects", projectCheck)]
             /\ UNCHANGED <<time_logs, clock>>
        ELSE IF ~CheckConstraintsOk(row)
        THEN \* the INSERT raises a check violation, caught
             /\ Finish(r, Reply(500, <<"Failed to create time log">>))
             /\ local' = [local EXCEPT
                  ![r].checked = @ \cup FoundIn("projects", projectCheck)
                                  \cup FoundIn("tasks", taskCheck)]
             /\ UNCHANGED <<time_logs, clock>>
        ELSE /\ FreeKeys # {}
             /\ LET k == CHOOSE k \in FreeKeys : TRUE
                    inserted == [row EXCEPT !.id = InsertedId(k)]
                IN /\ time_logs' = [time_logs EXCEPT ![k] = inserted]
                   /\ Finish(r, [Reply(201, <<"Time log created successfully">>)
                                   EXCEPT !.id = inserted.id])
             /\ local' = [local EXCEPT
                  ![r].checked = @ \cup FoundIn("projects", projectCheck)
                                  \cup FoundIn("tasks", taskCheck)]
             /\ clock' = clock + 1
  /\ UNCHANGED <<DB_TYPE, screenshots, req>>
  /\ UNCHANGED <<startupVars, registrationVars>>

(***************************************************************************)
(* POST /api/log/screenshot and GET /api/log/screenshot/:id.               *)
(***************************************************************************)
StartScreenshot(r) ==
  /\ Idle(r)
  /\ \E a \in Actors, id \in OldKeys \cup {NULL} :
       req' = [req EXCEPT ![r] =
                 [NoReq EXCEPT !.route = "screenshot", !.user = a, !.timeLogId = id]]
  /\ pc' = [pc EXCEPT ![r] = "screenshot_handler"]
  /\ UNCHANGED <<DB_TYPE, time_logs, screenshots, clock, local, res>>
  /\ UNCHANGED <<startupVars, registrationVars>>

FreeShotKeys == {k \in ShotNewKeys : ~screenshots[k].present}

UploadScreenshot(r) ==
  /\ pc[r] = "screenshot_handler"
  /\ LET org == req[r].user.organizationId
         timeLogCheck == IF req[r].timeLogId = NULL THEN {}
                         ELSE OwnedRows("time_logs", req[r].timeLogId, org)
     IN IF req[r].timeLogId # NULL /\ timeLogCheck = {}
        THEN /\ Finish(r, Reply(403,
                  <<"Time log not found or does not belong to your organization">>))
             /\ UNCHANGED <<screenshots, local>>
        ELSE /\ FreeShotKeys # {}
             /\ LET k == CHOOSE k \in FreeShotKeys : TRUE
                    row == [present |-> TRUE, id |-> InsertedId(k),
                            organization_id |-> org, user_id |-> req[r].user.id,
                            time_log_id |-> req[r].timeLogId,
                            captured_at |-> "17:00", deleted_at |-> 0]
                IN /\ screenshots' = [screenshots EXCEPT ![k] = row]
                   /\ Finish(r, [Reply(201, <<"Screenshot uploaded successfully">>)
                                   EXCEPT !.id = row.id])
             /\ local' = [local EXCEPT
                  ![r].checked = @ \cup FoundIn("time_logs", timeLogCheck)]
  /\ UNCHANGED <<DB_TYPE, time_logs, clock, req>>
  /\ UNCHANGED <<startupVars, registrationVars>>

StartGetScreenshot(r) ==
  /\ Idle(r)
  /\ \E a \in Actors, id \in ShotOldKeys :
       req' = [req EXCEPT ![r] =
                 [NoReq EXCEPT !.route = "screenshot-get", !.user = a, !.id = id]]
  /\ pc' = [pc EXCEPT ![r] = "screenshot_get"]
  /\ UNCHANGED <<DB_TYPE, time_logs, screenshots, clock, local, res>>
  /\ UNCHANGED <<startupVars, registrationVars>>

\* Mutant of GetScreenshotRows: the SELECT without the organization filter.
GetScreenshotRowsAnyOrg(r) ==
  LET b == Bound(<<1, 2>>, <<req[r].id, req[r].user.organizationId>>)
  IN {k \in ShotKeys : Alive(screenshots[k]) /\ SqlEq(screenshots[k].id, b[1])}

\* SELECT .. FROM screenshots WHERE id = $1 AND organization_id = $2 AND deleted_at IS NULL
GetScreenshotRows(r) ==
  LET b == Bound(<<1, 2>>, <<req[r].id, req[r].user.organizationId>>)
  IN {k \in ShotKeys :
        /\ Alive(screenshots[k])
        /\ SqlEq(screenshots[k].id, b[1])
        /\ SqlEq(screenshots[k].organization_id, b[2])}

GetScreenshot(r) ==
  /\ pc[r] = "screenshot_get"
  /\ LET rows == GetScreenshotRows(r) IN
       IF rows = {}
       THEN Finish(r, Reply(404, <<"Screenshot not found">>))
       ELSE Finish(r, [Reply(200, <<>>) EXCEPT
                         !.id = screenshots[CHOOSE k \in rows : TRUE].id,
                         !.rows = rows])
  /\ UNCHANGED <<DB_TYPE, time_logs, screenshots, clock, req, local>>
  /\ UNCHANGED <<startupVars, registrationVars>>

(***************************************************************************)
(* GET /api/report/timeline.                                               *)
(***************************************************************************)
StartTimeline(r) ==
  /\ Idle(r)
  /\ \E a \in Actors, u \in UserIds \cup {NULL} :
       req' = [req EXCEPT ![r] =
                 [NoReq EXCEPT !.route = "timeline", !.user = a, !.userId = u]]
  /\ pc' = [pc EXCEPT ![r] = "timeline"]
  /\ UNCHANGED <<DB_TYPE, time_logs, screenshots, clock, local, res>>
  /\ UNCHANGED <<startupVars, registrationVars>>

\* SELECT id FROM users WHERE id = $1 AND organization_id = $2 AND deleted_at IS NULL
TimelineUserCheck(userId, org) ==
  LET b == Bound(<<1, 2>>, <<userId, org>>)
  IN {u \in UserIds :
        /\ SqlEq(u, b[1])
        /\ SqlEq(users[u].organization_id, b[2])
        /\ users[u].deleted_at = 0}

\* .. FROM time_logs tl JOIN projects p .. JOIN tasks t .. JOIN users u ..
\* WHERE tl.organization_id = $1 AND tl.user_id = $2 AND tl.deleted_at IS NULL
\*   AND p.deleted_at IS NULL AND t.deleted_at IS NULL AND tl.start_time >= $3
TimelineRows(org, targetUserId) ==
  LET b == Bound(<<1, 2>>, <<org, targetUserId>>)
  IN {k \in TimeLogKeys :
        /\ Alive(time_logs[k])
        /\ SqlEq(time_logs[k].organization_id, b[1])
        /\ SqlEq(time_logs[k].user_id, b[2])
        /\ \E p \in DOMAIN projects :
             SqlEq(time_logs[k].project_id, p) /\ projects[p].deleted_at = 0
        /\ \E t \in DOMAIN tasks :
             SqlEq(time_logs[k].task_id, t) /\ tasks[t].deleted_at = 0
        /\ time_logs[k].user_id \in UserIds}

Timeline(r) ==
  /\ pc[r] = "timeline"
  /\ LET user == req[r].user
         userId == req[r].userId
         privileged == user.role = "admin" \/ user.role = "manager"
         targetUserId == IF userId # NULL /\ privileged THEN userId ELSE user.id
     IN IF userId # NULL /\ userId # user.id /\ ~privileged
        THEN Finish(r, Reply(403,
               <<"You do not have permission to view other users' data">>))
        ELSE IF /\ userId # NULL /\ userId # user.id
                /\ TimelineUserCheck(userId, user.organizationId) = {}
        THEN Finish(r, Reply(403,
               <<"User not found or does not belong to your organization">>))
        ELSE Finish(r, [Reply(200, <<>>) EXCEPT
                          !.rows = TimelineRows(user.organizationId, targetUserId)])
  /\ UNCHANGED <<DB_TYPE, time_logs, screenshots, clock, req, local>>
  /\ UNCHANGED <<startupVars, registrationVars>>

\* No request is between its first and its last step.
NoneInFlight == \A q \in Reqs : pc[q] \in {"idle", "done"}

\* The routes as the server mounts them, one request at a time.
RouteNext ==
  \E r \in Reqs :
    \/ /\ NoneInFlight
       /\ \/ StartGated(r)
          \/ StartTime(r)
          \/ StartScreenshot(r)
    \/ Authorize(r)
    \/ ValidateProject(r)
    \/ ValidateTask(r)
    \/ CreateTimeLog(r)
    \/ UploadScreenshot(r)

RouteSpec == Init /\ [][RouteNext]_vars

\* Every operation that takes a resource id, one request at a time: the
\* approval handlers from their first statement, the other routes as mounted.
TenantNext ==
  \E r \in Reqs :
    \/ /\ NoneInFlight
       /\ \/ StartApprove(r)
          \/ StartBulk(r)
          \/ StartTime(r)
          \/ StartScreenshot(r)
          \/ StartGetScreenshot(r)
          \/ StartTimeline(r)
    \/ ApproveCheck(r)
    \/ ApproveUpdate(r)
    \/ BulkVerify(r)
    \/ BulkUpdate(r)
    \/ ValidateProject(r)
    \/ ValidateTask(r)
    \/ CreateTimeLog(r)
    \/ UploadScreenshot(r)
    \/ GetScreenshot(r)
    \/ Timeline(r)

TenantSpec == Init /\ [][TenantNext]_vars

(***************************************************************************)
(* services/crypto: the field codec.  A ciphertext is written "enc(v)".    *)
(***************************************************************************)
CipherOf ==
  ("p1" :> "enc(p1)") @@ ("p2" :> "enc(p2)") @@ ("t1" :> "enc(t1)") @@
  ("t3" :> "enc(t3)") @@ ("09:00" :> "enc(09:00)") @@ ("17:00" :> "enc(17:00)") @@
  ("0" :> "enc(0)") @@ ("50" :> "enc(50)")

IsCiphertext(c) == \E v \in DOMAIN CipherOf : CipherOf[v] = c

encrypt(v) == CipherOf[v]

\* The inverse of encrypt; a value that is no ciphertext fails to decrypt.
decrypt(c) ==
  IF IsCiphertext(c) THEN CHOOSE v \in DOMAIN CipherOf : CipherOf[v] = c
  ELSE "DecryptionError"

encryptFields(record, fieldNames) ==
  [f \in DOMAIN record |-> IF f \in fieldNames THEN encrypt(record[f]) ELSE record[f]]

\* nullAs: what decrypting a null field gives (NULL, or "DecryptionError").
decryptFields(record, fieldNames, nullAs) ==
  [f \in DOMAIN record |->
     IF f \notin fieldNames THEN record[f]
     ELSE IF record[f] = NULL THEN nullAs
     ELSE decrypt(record[f])]

(***************************************************************************)
(* config/database-sqlite.js: insertTimeLog, insertScreenshot,             *)
(* getPendingSyncLogs, getPendingSyncScreenshots.  Each is one call.       *)
(***************************************************************************)
Organizations == {"o1", "o2"}

\* Mutant of TimeLogForeignKeysOk: time_logs without its foreign keys.
TimeLogForeignKeysAbsent(row) == TRUE

\* PRAGMA foreign_keys = ON with the FOREIGN KEY clauses of time_logs.
TimeLogForeignKeysOk(row) ==
  /\ row.organization_id \in Organizations
  /\ row.user_id \in UserIds
  /\ row.project_id \in DOMAIN projects
  /\ row.task_id \in DOMAIN tasks

\* .. and of screenshots.
ShotForeignKeysOk(shot) ==
  /\ shot.organization_id \in Organizations
  /\ shot.user_id \in UserIds
  /\ \/ shot.time_log_id = NULL
     \/ \E k \in TimeLogKeys : time_logs[k].present /\ time_logs[k].id = shot.time_log_id

TimeLogEncryptedFields == {"project_id", "start_time", "end_time", "activity_score"}

\* A call in slot r returns or throws: it is one step.
Callable(r) == Idle(r) /\ NoneInFlight

Call(r, request, reply) ==
  /\ req' = [req EXCEPT ![r] = request]
  /\ Finish(r, reply)

\* The arguments of a call, kept as its request.
Args(name) == [NoReq EXCEPT !.route = name]

Thrown(msg) == [Reply(0, msg) EXCEPT !.thrown = TRUE]

InsertTimeLog(r) ==
  /\ Callable(r)
  /\ DB_TYPE = "sqlite"
  /\ FreeKeys # {}
  /\ \E u \in UserIds, s \in Times, e \in Times, d \in {0, 1},
        st \in {"pending", "approved"} :
       LET k == CHOOSE k \in FreeKeys : TRUE
           org == users[u].organization_id
           timeLogData == [PendingRow(k, org, u, OwnProject(org), OwnTask(org))
                             EXCEPT !.start_time = s, !.end_time = e,
                                    !.duration_ms = d, !.activity_score = "50",
                                    !.status = st, !.updated_at = clock]
           encryptedData == encryptFields(timeLogData, TimeLogEncryptedFields)
           args == [Args("insertTimeLog") EXCEPT
                      !.userId = u, !.projectId = timeLogData.project_id,
                      !.taskId = timeLogData.task_id, !.startTime = s,
                      !.endTime = e, !.durationMs = d, !.action = st]
       IN IF ~TimeLogForeignKeysOk(encryptedData)
          THEN /\ Call(r, args,
                       Thrown(<<"SQLITE_CONSTRAINT: FOREIGN KEY constraint failed">>))
               /\ UNCHANGED <<time_logs, clock>>
          ELSE /\ Call(r, args, [Reply(0, <<>>) EXCEPT !.id = k])
               /\ time_logs' = [time_logs EXCEPT ![k] = encryptedData]
               /\ clock' = clock + 1
  /\ UNCHANGED <<DB_TYPE, screenshots, local>>
  /\ UNCHANGED <<startupVars, registrationVars>>

InsertScreenshot(r) ==
  /\ Callable(r)
  /\ DB_TYPE = "sqlite"
  /\ FreeShotKeys # {}
  /\ \E u \in UserIds, c \in Times, tl \in {NULL, "t1", "t3"} :
       LET k == CHOOSE k \in FreeShotKeys : TRUE
           screenshotData == [present |-> TRUE, id |-> k,
                              organization_id |-> users[u].organization_id,
                              user_id |-> u, time_log_id |-> tl,
                              captured_at |-> c, deleted_at |-> 0]
           fieldsToEncrypt == {"captured_at"} \cup
                              (IF tl # NULL THEN {"time_log_id"} ELSE {})
           encryptedData == encryptFields(screenshotData, fieldsToEncrypt)
           args == [Args("insertScreenshot") EXCEPT
                      !.userId = u, !.timeLogId = tl, !.startTime = c]
       IN IF ~ShotForeignKeysOk(encryptedData)
          THEN /\ Call(r, args,
                       Thrown(<<"SQLITE_CONSTRAINT: FOREIGN KEY constraint failed">>))
               /\ UNCHANGED screenshots
          ELSE /\ Call(r, args, [Reply(0, <<>>) EXCEPT !.id = k])
               /\ screenshots' = [screenshots EXCEPT ![k] = encryptedData]
  /\ UNCHANGED <<DB_TYPE, time_logs, clock, local>>
  /\ UNCHANGED <<startupVars, registrationVars>>

\* SELECT .. FROM time_logs WHERE deleted_at IS NULL [AND organization_id = ?]
SyncLogRows(organizationId) ==
  {k \in TimeLogKeys :
     /\ Alive(time_logs[k])
     /\ organizationId # NULL => SqlEq(time_logs[k].organization_id, organizationId)}

\* SELECT .. FROM screenshots WHERE deleted_at IS NULL [AND organization_id = ?]
SyncShotRows(organizationId) ==
  {k \in ShotKeys :
     /\ Alive(screenshots[k])
     /\ organizationId # NULL => SqlEq(screenshots[k].organization_id, organizationId)}

\* The reader's result for the stored rows at keys, decrypting fieldNames.
SyncRead(r, name, table, keys, fieldNames) ==
  \E nullAs \in {NULL, "DecryptionError"} :
    LET decryptedRows == {decryptFields(table[k], fieldNames, nullAs) : k \in keys}
        passed == {<<k, f>> : k \in keys, f \in fieldNames}
    IN IF \E row \in decryptedRows, f \in fieldNames : row[f] = "DecryptionError"
       THEN Call(r, Args(name), [Thrown(<<"DecryptionError">>) EXCEPT
                             !.rows = keys, !.decrypted = passed])
       ELSE Call(r, Args(name), [Reply(0, <<>>) EXCEPT
                             !.rows = keys, !.decrypted = passed,
                             !.records = decryptedRows])

GetPendingSyncLogs(r) ==
  /\ Callable(r)
  /\ DB_TYPE = "sqlite"
  /\ \E organizationId \in Organizations \cup {NULL} :
       SyncRead(r, "getPendingSyncLogs", time_logs, SyncLogRows(organizationId),
                TimeLogEncryptedFields)
  /\ UNCHANGED <<DB_TYPE, time_logs, screenshots, clock, local>>
  /\ UNCHANGED <<startupVars, registrationVars>>

GetPendingSyncScreenshots(r) ==
  /\ Callable(r)
  /\ DB_TYPE = "sqlite"
  /\ \E organizationId \in Organizations \cup {NULL} :
       SyncRead(r, "getPendingSyncScreenshots", screenshots,
                SyncShotRows(organizationId), {"captured_at", "time_log_id"})
  /\ UNCHANGED <<DB_TYPE, time_logs, screenshots, clock, local>>
  /\ UNCHANGED <<startupVars, registrationVars>>

\* The write paths and the sync readers of both stores, one request at a time.
StoreNext ==
  \E r \in Reqs :
    \/ /\ NoneInFlight
       /\ \/ StartTimeRange(r)
          \/ StartScreenshot(r)
    \/ ValidateProject(r)
    \/ ValidateTask(r)
    \/ CreateTimeLog(r)
    \/ UploadScreenshot(r)
    \/ InsertTimeLog(r)
    \/ InsertScreenshot(r)
    \/ GetPendingSyncLogs(r)
    \/ GetPendingSyncScreenshots(r)

StoreSpec == Init /\ [][StoreNext]_vars

(***************************************************************************)
(* routes/auth.js: POST /api/auth/register.  local.client is the handle    *)
(* getClient returned, local.statements the transaction statements run on  *)
(* it, local.released the number of calls of client.release().             *)
(***************************************************************************)
\* The slugs of the organizations and the e-mail addresses of the users stored.
StoredSlugs == {"o1", "o2"}
StoredEmails == {"u1@o1", "u4@o2"}

\* body('organizationSlug').trim().matches(/^[a-z0-9-]+$/)
SlugMatches(slug) == slug # "New Org"

\* body('email').isEmail()
IsEmail(email) == email # "nobody"

\* What the module database-factory.js exports offers under the name
\* getClient: the server store's module exports query and pool only.
ExportsGetClient == DB_TYPE = "sqlite"

StartRegister(r) ==
  /\ Idle(r)
  /\ \E email \in {"u1@o1", "new@o3", "nobody"}, slug \in {"o1", "o3", "New Org"} :
       req' = [req EXCEPT ![r] =
                 [NoReq EXCEPT !.route = "register", !.email = email,
                               !.organizationSlug = slug]]
  /\ pc' = [pc EXCEPT ![r] = "register_validate"]
  /\ UNCHANGED <<DB_TYPE, time_logs, screenshots, clock, local, res>>
  /\ UNCHANGED <<startupVars, registrationVars>>

\* validationResult(req)
RegisterValidate(r) ==
  /\ pc[r] = "register_validate"
  /\ IF IsEmail(req[r].email) /\ SlugMatches(req[r].organizationSlug)
     THEN /\ pc' = [pc EXCEPT ![r] = "register_client"]
          /\ UNCHANGED res
     ELSE Finish(r, Reply(400, <<"Validation failed">>))
  /\ UNCHANGED <<DB_TYPE, time_logs, screenshots, clock, req, local>>
  /\ UNCHANGED <<startupVars, registrationVars>>

\* const client = await getClient(): a call of undefined throws a TypeError,
\* which the handler's outer catch answers with 500.
RegisterGetClient(r) ==
  /\ pc[r] = "register_client"
  /\ IF ExportsGetClient
     THEN /\ local' = [local EXCEPT ![r].client = "compat"]
          /\ pc' = [pc EXCEPT ![r] = "register_transaction"]
          /\ UNCHANGED res
     ELSE /\ Finish(r, Reply(500, <<"Registration failed">>))
          /\ UNCHANGED local
  /\ UNCHANGED <<DB_TYPE, time_logs, screenshots, clock, req>>
  /\ UNCHANGED <<startupVars, registrationVars>>

\* The inner try / catch / finally on the embedded store's handle.  The
\* organizations row is inserted with id NULL (TEXT PRIMARY KEY, no default),
\* so INSERT INTO users fails on organization_id NOT NULL and the catch rolls
\* the transaction back.
RegisterTransaction(r) ==
  /\ pc[r] = "register_transaction"
  /\ LET rolledBack == <<"BEGIN", "ROLLBACK">>
         reply == IF req[r].organizationSlug \in StoredSlugs
                  THEN Reply(400, <<"Organization slug already exists">>)
                  ELSE IF req[r].email \in StoredEmails
                  THEN Reply(400, <<"Email already registered">>)
                  ELSE Reply(500, <<"Registration failed">>)
     IN /\ local' = [local EXCEPT ![r].statements = rolledBack,
                                  ![r].released = @ + 1]
        /\ Finish(r, reply)
  /\ UNCHANGED <<DB_TYPE, time_logs, screenshots, clock, req>>
  /\ UNCHANGED <<startupVars, registrationVars>>

\* Registration requests, one at a time.
RegisterNext ==
  \E r \in Reqs :
    \/ NoneInFlight /\ StartRegister(r)
    \/ RegisterValidate(r)
    \/ RegisterGetClient(r)
    \/ RegisterTransaction(r)

RegisterSpec == Init /\ [][RegisterNext]_vars

(***************************************************************************)
(* POST /api/auth/register on the embedded store, statement by statement.  *)
(* getClient's handle runs every statement through the module's query, on  *)
(* the one connection db that all requests use: BEGIN opens a transaction  *)
(* of that connection, whatever is written until COMMIT or ROLLBACK is     *)
(* part of it, and ROLLBACK puts the tables back as they were at BEGIN.    *)
(***************************************************************************)
OpenTransaction ==
  [active |-> TRUE, time_logs |-> time_logs, screenshots |-> screenshots,
   organizations |-> organizations, registeredUsers |-> registeredUsers]

\* r runs statement on its handle and goes on at next.
RunStatement(r, statement, next) ==
  /\ local' = [local EXCEPT ![r].statements = Append(@, statement)]
  /\ pc' = [pc EXCEPT ![r] = next]
  /\ UNCHANGED res

\* client.query('BEGIN'): fails inside a transaction ("cannot start a
\* transaction within a transaction").
RegisterBegin(r) ==
  /\ pc[r] = "register_transaction"
  /\ RunStatement(r, "BEGIN",
                  IF transaction.active THEN "register_catch" ELSE "register_orgCheck")
  /\ transaction' = IF transaction.active THEN transaction ELSE OpenTransaction
  /\ UNCHANGED <<DB_TYPE, time_logs, screenshots, clock, req,
                 startupVars, organizations, registeredUsers>>

\* SELECT id FROM organizations WHERE slug = $1
RegisterOrgCheck(r) ==
  /\ pc[r] = "register_orgCheck"
  /\ IF req[r].organizationSlug \in StoredSlugs \cup organizations
     THEN /\ pc' = [pc EXCEPT ![r] = "register_refuse"]
          /\ local' = [local EXCEPT ![r].validation.message =
                         "Organization slug already exists"]
     ELSE /\ pc' = [pc EXCEPT ![r] = "register_emailCheck"]
          /\ UNCHANGED local
  /\ UNCHANGED <<DB_TYPE, time_logs, screenshots, clock, req, res,
                 startupVars, registrationVars>>

\* SELECT id FROM users WHERE email = $1
RegisterEmailCheck(r) ==
  /\ pc[r] = "register_emailCheck"
  /\ IF req[r].email \in StoredEmails \cup {u.email : u \in registeredUsers}
     THEN /\ pc' = [pc EXCEPT ![r] = "register_refuse"]
          /\ local' = [local EXCEPT ![r].validation.message = "Email already registered"]
     ELSE /\ pc' = [pc EXCEPT ![r] = "register_insertOrganization"]
          /\ UNCHANGED local
  /\ UNCHANGED <<DB_TYPE, time_logs, screenshots, clock, req, res,
                 startupVars, registrationVars>>

\* ROLLBACK: the tables are as at BEGIN again; fails when no transaction is
\* open ("cannot rollback - no transaction is active").
RolledBack ==
  /\ time_logs' = transaction.time_logs
  /\ screenshots' = transaction.screenshots
  /\ organizations' = transaction.organizations
  /\ registeredUsers' = transaction.registeredUsers
  /\ transaction' = NoTransaction

\* await client.query('ROLLBACK'); return res.status(400) ..; finally release
RegisterRefuse(r) ==
  /\ pc[r] = "register_refuse"
  /\ IF transaction.active
     THEN /\ RolledBack
          /\ local' = [local EXCEPT ![r].statements = Append(@, "ROLLBACK"),
                                    ![r].released = @ + 1]
          /\ Finish(r, Reply(400, <<local[r].validation.message>>))
     ELSE /\ RunStatement(r, "ROLLBACK", "register_catch")
          /\ UNCHANGED <<time_logs, screenshots, registrationVars>>
  /\ UNCHANGED <<DB_TYPE, clock, req, startupVars>>

\* INSERT INTO organizations (name, slug, plan) .. RETURNING id: the row has
\* no id (TEXT PRIMARY KEY without default); slug is UNIQUE.
RegisterInsertOrganization(r) ==
  /\ pc[r] = "register_insertOrganization"
  /\ IF req[r].organizationSlug \in StoredSlugs \cup organizations
     THEN /\ RunStatement(r, "INSERT organizations", "register_catch")
          /\ UNCHANGED organizations
     ELSE /\ RunStatement(r, "INSERT organizations", "register_insertUser")
          /\ organizations' = organizations \cup {req[r].organizationSlug}
  /\ UNCHANGED <<DB_TYPE, time_logs, screenshots, clock, req,
                 startupVars, transaction, registeredUsers>>

\* INSERT INTO users (organization_id, ..) with the id RETURNING gave, which
\* is null: users.organization_id is NOT NULL and the statement fails.
RegisterInsertUser(r) ==
  /\ pc[r] = "register_insertUser"
  /\ RunStatement(r, "INSERT users", "register_catch")
  /\ UNCHANGED <<DB_TYPE, time_logs, screenshots, clock, req,
                 startupVars, registrationVars>>

\* catch (error) { await client.query('ROLLBACK'); throw error }
\* finally { client.release() }, then the outer catch answers 500.
RegisterCatch(r) ==
  /\ pc[r] = "register_catch"
  /\ IF transaction.active
     THEN RolledBack
     ELSE UNCHANGED <<time_logs, screenshots, registrationVars>>
  /\ local' = [local EXCEPT ![r].statements = Append(@, "ROLLBACK"),
                            ![r].released = @ + 1]
  /\ Finish(r, Reply(500, <<"Registration failed">>))
  /\ UNCHANGED <<DB_TYPE, clock, req, startupVars>>

\* Registrations and POST /api/log/time requests, interleaved.
TransactionNext ==
  \E r \in Reqs :
    \/ StartRegister(r)
    \/ RegisterValidate(r)
    \/ RegisterGetClient(r)
    \/ RegisterBegin(r)
    \/ RegisterOrgCheck(r)
    \/ RegisterEmailCheck(r)
    \/ RegisterRefuse(r)
    \/ RegisterInsertOrganization(r)
    \/ RegisterInsertUser(r)
    \/ RegisterCatch(r)
    \/ StartTime(r)
    \/ ValidateProject(r)
    \/ ValidateTask(r)
    \/ CreateTimeLog(r)

TransactionSpec == Init /\ [][TransactionNext]_vars

(***************************************************************************)
(* config/crypto-config.js: getEncryptionKey.  A Buffer is written as its  *)
(* lower-case hex digits, a SHA-256 digest as "sha256(..)".                *)
(***************************************************************************)
DevelopmentKeyHex == "0123456789abcdef0123456789abcdef0123456789abcdef0123456789abcdef"

HARDCODED_KEY == DevelopmentKeyHex

UpperCaseKeyHex == "0123456789ABCDEF0123456789ABCDEF0123456789ABCDEF0123456789ABCDEF"

OtherKeyHex == "ffffffffffffffffffffffffffffffffffffffffffffffffffffffffffffffff"

\* The values of process.env.ENCRYPTION_KEY and process.env.NODE_ENV (NULL: unset).
Secrets == {NULL, "", DevelopmentKeyHex, UpperCaseKeyHex, OtherKeyHex, "passphrase"}

NodeEnvs == {NULL, "development", "production"}

\* if (process.env.ENCRYPTION_KEY)
Truthy(v) == v # NULL /\ v # ""

\* /^[0-9a-fA-F]{64}$/.test(envKey)
IsHex64(envKey) == envKey \in {DevelopmentKeyHex, UpperCaseKeyHex, OtherKeyHex}

\* Buffer.from(envKey, 'hex')
BufferFromHex(envKey) ==
  IF envKey = UpperCaseKeyHex THEN DevelopmentKeyHex ELSE envKey

\* crypto.createHash('sha256').update(envKey).digest()
Sha256(envKey) == IF envKey = "passphrase" THEN "sha256(passphrase)" ELSE "sha256(..)"

KeyReturned(key, warning) == [key |-> key, thrown |-> FALSE, warned |-> warning]

KeyThrown == [key |-> NULL, thrown |-> TRUE, warned |-> FALSE]

\* Mutant of getEncryptionKey: the fallback without its production guard.
getEncryptionKeyUnguarded(e) ==
  IF Truthy(e.ENCRYPTION_KEY)
  THEN IF IsHex64(e.ENCRYPTION_KEY)
       THEN KeyReturned(BufferFromHex(e.ENCRYPTION_KEY), FALSE)
       ELSE KeyReturned(Sha256(e.ENCRYPTION_KEY), FALSE)
  ELSE KeyReturned(HARDCODED_KEY, TRUE)

getEncryptionKey(e) ==
  IF Truthy(e.ENCRYPTION_KEY)
  THEN IF IsHex64(e.ENCRYPTION_KEY)
       THEN KeyReturned(BufferFromHex(e.ENCRYPTION_KEY), FALSE)
       ELSE KeyReturned(Sha256(e.ENCRYPTION_KEY), FALSE)
  ELSE IF e.NODE_ENV = "production"
       THEN KeyThrown
       ELSE KeyReturned(HARDCODED_KEY, TRUE)

(***************************************************************************)
(* Process start: server.js requires the routes, these require             *)
(* config/database-factory.js, which loads the selected store; then        *)
(* app.listen.  In embedded mode initializeDatabase() runs on from there   *)
(* in callbacks.                                                           *)
(***************************************************************************)
\* What ~/.time-tracker/database.sqlite may hold at start: nothing, or the
\* tables an earlier createSchema got to.
InitialFiles ==
  {NoFile} \cup
  {[exists |-> TRUE, tables |-> {SchemaTables[i] : i \in 1..n}] : n \in {0, 4, 9, 10}}

StartupInit ==
  /\ InitData
  /\ NoRequests
  /\ NoRegistrations
  /\ env \in [NODE_ENV : NodeEnvs, ENCRYPTION_KEY : Secrets]
  /\ server = "loading"
  /\ db = NULL
  /\ dbFile \in InitialFiles
  /\ initialization = NotStarted
  /\ encryptionKey = <<>>

\* database-sqlite.js requires services/crypto; database.js does not.
LoadsFieldCodec == DB_TYPE = "sqlite"

\* services/crypto obtains its key when it is loaded.
KeyObtainedAtLoad == TRUE

\* require('./config/database-factory'): the store's module is loaded; in
\* embedded mode initializeDatabase() is called and not awaited.  An error
\* thrown while loading leaves the process.
LoadStore ==
  /\ server = "loading"
  /\ LET key == getEncryptionKey(env) IN
       IF LoadsFieldCodec /\ KeyObtainedAtLoad /\ key.thrown
       THEN /\ server' = "exited"
            /\ encryptionKey' = Append(encryptionKey, key)
            /\ UNCHANGED <<db, initialization>>
       ELSE /\ server' = "loaded"
            /\ encryptionKey' = IF LoadsFieldCodec /\ KeyObtainedAtLoad
                                THEN Append(encryptionKey, key) ELSE encryptionKey
            /\ IF DB_TYPE = "sqlite"
               THEN /\ db' = "opening"
                    /\ initialization' = [NotStarted EXCEPT !.step = "opening",
                                                            !.dbExists = dbFile.exists]
               ELSE UNCHANGED <<db, initialization>>
  /\ UNCHANGED <<DB_TYPE, time_logs, screenshots, clock, req, pc, local, res,
                 env, dbFile, registrationVars>>

\* app.listen(PORT)
Listen ==
  /\ server = "loaded"
  /\ server' = "listening"
  /\ UNCHANGED <<DB_TYPE, time_logs, screenshots, clock, req, pc, local, res,
                 env, db, dbFile, initialization, encryptionKey, registrationVars>>

\* The callback of new sqlite3.Database(dbPath), which runs after the
\* synchronous start has got to app.listen: an error rejects; otherwise the
\* file exists from now on and PRAGMA foreign_keys = ON is run.
Opened ==
  /\ server = "listening"
  /\ initialization.step = "opening"
  /\ \E err \in BOOLEAN :
       IF err
       THEN /\ db' = "failed"
            /\ initialization' = [initialization EXCEPT !.step = "rejected"]
            /\ UNCHANGED dbFile
       ELSE /\ db' = "open"
            /\ initialization' = [initialization EXCEPT !.step = "pragma"]
            /\ dbFile' = [dbFile EXCEPT !.exists = TRUE]
  /\ UNCHANGED <<DB_TYPE, time_logs, screenshots, clock, req, pc, local, res,
                 env, server, encryptionKey, registrationVars>>

\* The callback of the PRAGMA: if (!dbExists) createSchema() else verifyTables()
ForeignKeysOn ==
  /\ initialization.step = "pragma"
  /\ initialization' =
       [initialization EXCEPT
          !.step = IF ~initialization.dbExists THEN "createSchema" ELSE "verifyTables"]
  /\ UNCHANGED <<DB_TYPE, time_logs, screenshots, clock, req, pc, local, res,
                 env, server, db, dbFile, encryptionKey, registrationVars>>

\* createSchema: db.run(CREATE TABLE IF NOT EXISTS ..) for each table of the
\* list in turn; the promise resolves with the last one.
createSchema ==
  /\ initialization.step = "createSchema"
  /\ LET i == initialization.next IN
       /\ dbFile' = [dbFile EXCEPT !.tables = @ \cup {SchemaTables[i]}]
       /\ initialization' =
            IF i = Len(SchemaTables)
            THEN [initialization EXCEPT !.step = "resolved"]
            ELSE [initialization EXCEPT !.next = i + 1]
  /\ UNCHANGED <<DB_TYPE, time_logs, screenshots, clock, req, pc, local, res,
                 env, server, db, encryptionKey, registrationVars>>

\* verifyTables: CREATE TABLE IF NOT EXISTS web_logs (and its indexes), then
\* resolve.
verifyTables ==
  /\ initialization.step = "verifyTables"
  /\ dbFile' = [dbFile EXCEPT !.tables = @ \cup {"web_logs"}]
  /\ initialization' = [initialization EXCEPT !.step = "resolved"]
  /\ UNCHANGED <<DB_TYPE, time_logs, screenshots, clock, req, pc, local, res,
                 env, server, db, encryptionKey, registrationVars>>

\* A request handler's call of query(text, params) on a table, once the server
\* listens.  The embedded store hands the statement to db.all whatever
\* initializeDatabase() has done so far (the driver holds it until the file is
\* opened); the server store hands it to the pool.
Query(r) ==
  /\ Callable(r)
  /\ server = "listening"
  /\ DB_TYPE = "sqlite" => db # "opening"
  /\ \E t \in {"time_logs", "web_logs"} :
       LET args == [Args("query") EXCEPT !.table = t] IN
         IF DB_TYPE = "sqlite" /\ db = "failed"
         THEN Call(r, args, Thrown(<<"SQLITE_MISUSE: Database handle is closed">>))
         ELSE IF DB_TYPE = "sqlite" /\ t \notin dbFile.tables
         THEN Call(r, args, Thrown(<<"SQLITE_ERROR: no such table">>))
         ELSE Call(r, args, Reply(0, <<>>))
  /\ UNCHANGED <<DB_TYPE, time_logs, screenshots, clock, local,
                 startupVars, registrationVars>>

StartupNext ==
  \/ LoadStore
  \/ Listen
  \/ Opened
  \/ ForeignKeysOn
  \/ createSchema
  \/ verifyTables
  \/ \E r \in Reqs : Query(r)

StartupSpec == StartupInit /\ [][StartupNext]_vars

(***************************************************************************)
(* Soft delete of a time entry: deleted_at is set and the row is kept.     *)
(***************************************************************************)
SoftDelete ==
  /\ \E k \in OldKeys :
       /\ Alive(time_logs[k])
       /\ time_logs' = [time_logs EXCEPT ![k].deleted_at = 1]
  /\ UNCHANGED <<DB_TYPE, screenshots, clock, req, pc, local, res,
                 startupVars, registrationVars>>

\* The approval handlers interleaved with soft deletes, and the readers of
\* time_logs one at a time.
DeleteNext ==
  \/ SoftDelete
  \/ \E r \in Reqs :
       \/ StartApprove(r)
       \/ ApproveCheck(r)
       \/ ApproveUpdate(r)
       \/ StartBulk(r)
       \/ BulkVerify(r)
       \/ BulkUpdate(r)
       \/ NoneInFlight /\ StartTimeline(r)
       \/ Timeline(r)
       \/ GetPendingSyncLogs(r)

DeleteSpec == Init /\ [][DeleteNext]_vars

(***************************************************************************)
(* Properties of the approval workflow (checked under Spec).               *)
(***************************************************************************)
Terminal(status) == status \in {"approved", "rejected"}

\* The rows a caller of organization org may address by id.
OwnAlive(id, org) ==
  {k \in TimeLogKeys :
     Alive(time_logs[k]) /\ time_logs[k].id = id /\ time_logs[k].organization_id = org}

SameApproval(a, b) ==
  a.status = b.status /\ a.approved_by = b.approved_by /\ a.approved_at = b.approved_at

\* r takes a step.
Steps(r) == pc'[r] # pc[r]

ApproveSuccesses(id) ==
  {r \in Reqs : /\ req[r].route = "approve" /\ req[r].timeLogId = id
                /\ pc[r] = "done" /\ res[r].status = 200}

InvalidIds(ids, org) == {i \in DOMAIN ids : OwnAlive(ids[i], org) = {}}

BulkOwnershipFailure ==
  Reply(400, <<"Some time logs were not found or do not belong to your organization">>)

Alone(r) == \A q \in Reqs \ {r} : pc[q] = "idle"

NoDuplicates(ids) == \A i, j \in DOMAIN ids : i # j => ids[i] # ids[j]

\* The listed ids whose entry is pending / terminal in the current state.
ListedWith(ids, Test(_)) ==
  {k \in TimeLogKeys : /\ time_logs[k].present
                       /\ \E i \in DOMAIN ids : time_logs[k].id = ids[i]
                       /\ Test(time_logs[k].status)}

IsPendingStatus(status) == status = "pending"

\* C5: a bulk request whose ids all exist, are non-deleted and belong to the
\* actor's organization ends with exactly the entries that were pending carrying
\* the new status and the actor as approver, every terminal entry unchanged, and
\* the answer approved = number pending, skipped = number terminal (here for a
\* request running alone, with at least one pending id, on either store).
C5_BulkPartialStatus ==
  [][\A r \in Reqs :
       (/\ req[r].route = "bulk-approve"
        /\ Alone(r)
        /\ pc[r] # "done" /\ pc'[r] = "done"
        /\ NoDuplicates(req[r].timeLogIds)
        /\ InvalidIds(req[r].timeLogIds, req[r].user.organizationId) = {}
        /\ ListedWith(req[r].timeLogIds, IsPendingStatus) # {})
       => LET wasPending == ListedWith(req[r].timeLogIds, IsPendingStatus)
              wasTerminal == ListedWith(req[r].timeLogIds, Terminal)
          IN /\ res'[r].status = 200
             /\ res'[r].approved = Cardinality(wasPending)
             /\ res'[r].skipped = Cardinality(wasTerminal)
             /\ \A k \in wasPending :
                  /\ time_logs'[k].status = NewStatus(req[r].action)
                  /\ time_logs'[k].approved_by = req[r].user.id
             /\ \A k \in TimeLogKeys \ wasPending : time_logs'[k] = time_logs[k]]_vars

\* C6: a bulk request whose ids all pass the existence/ownership check ends in
\* success with skipped = number of terminal ids, for every mix of pending and
\* terminal ids, also when none is pending.
C6_BulkSkipsTerminal ==
  [][\A r \in Reqs :
       (/\ req[r].route = "bulk-approve"
        /\ Alone(r)
        /\ pc[r] # "done" /\ pc'[r] = "done"
        /\ NoDuplicates(req[r].timeLogIds)
        /\ InvalidIds(req[r].timeLogIds, req[r].user.organizationId) = {})
       => /\ res'[r].status = 200
          /\ res'[r].skipped = Cardinality(ListedWith(req[r].timeLogIds, Terminal))]_vars

(***************************************************************************)
(* Properties of the routes as mounted (checked under RouteSpec).          *)
(***************************************************************************)
GatedRoutes == {"approve", "bulk-approve", "pending", "payroll"}

\* C7: the authorization step in front of single approve/reject, bulk
\* approve/reject, the pending list and the payroll export admits a request
\* exactly when the actor's role is admin or manager: any other role is answered
\* 403, an admin or a manager is passed on to the handler with no response sent.
C7_AuthorizeAdmitsApprovers ==
  \A r \in Reqs :
    (req[r].route \in GatedRoutes /\ pc[r] \notin {"idle", "authorize"}) =>
      IF req[r].user.role \in {"admin", "manager"}
      THEN pc[r] = HandlerEntry(req[r].route) /\ res[r] = NoRes
      ELSE pc[r] = "done" /\ res[r].status = 403

\* The non-deleted rows of a table with the given id.
AliveWithId(table, id) == {x \in TableRows(table) : x.id = id /\ x.deleted_at = 0}

\* C9: validateOrganizationResource answers invalid 'Validation failed' when the
\* lookup raises, invalid 'Resource not found' when no non-deleted row has the
\* id, invalid 'Resource does not belong to your organization' when that row
\* is of another organization, and valid exactly when a non-deleted row with
\* the id and the actor's organization exists and the lookup did not raise.
C9_GuardOutcomes ==
  \A r \in Reqs :
    LET v == local[r].validation
        rows == AliveWithId(v.table, v.id)
        own == {x \in rows : x.organization_id = req[r].user.organizationId}
    IN v.table # NULL =>
         /\ v.error => ~v.valid /\ v.message = "Validation failed"
         /\ (~v.error /\ rows = {}) => ~v.valid /\ v.message = "Resource not found"
         /\ (~v.error /\ rows # {} /\ own = {}) =>
              /\ ~v.valid
              /\ v.message = "Resource does not belong to your organization"
         /\ (~v.error /\ own # {}) => v.valid /\ v.message = NULL
         /\ v.valid => ~v.error /\ own # {}

\* One request was answered valid for a project of the actor's organization,
\* another was refused a project of a foreign organization.
C9_Witness ==
  \E r, q \in Reqs :
    /\ local[r].validation.valid
    /\ local[r].validation.table = "projects"
    /\ ~local[q].validation.valid
    /\ ~local[q].validation.error
    /\ local[q].validation.message = "Resource does not belong to your organization"

(***************************************************************************)
(* Properties of tenant isolation (checked under TenantSpec).              *)
(***************************************************************************)
ForeignTimeLog(id, org) ==
  \E k \in TimeLogKeys :
    /\ id # NULL
    /\ time_logs[k].present
    /\ time_logs[k].id = id
    /\ time_logs[k].organization_id # org

\* The request names a resource of an organization other than the actor's.
ForeignRef(q) ==
  LET org == q.user.organizationId IN
    CASE q.route = "approve" -> ForeignTimeLog(q.timeLogId, org)
      [] q.route = "bulk-approve" ->
           \E i \in DOMAIN q.timeLogIds : ForeignTimeLog(q.timeLogIds[i], org)
      [] q.route = "time" ->
           \/ q.projectId \in DOMAIN projects
                /\ projects[q.projectId].organization_id # org
           \/ q.taskId \in DOMAIN tasks /\ tasks[q.taskId].organization_id # org
      [] q.route = "screenshot" -> ForeignTimeLog(q.timeLogId, org)
      [] q.route = "screenshot-get" ->
           \E k \in ShotKeys :
             /\ screenshots[k].present
             /\ screenshots[k].id = q.id
             /\ screenshots[k].organization_id # org
      [] q.route = "timeline" ->
           q.userId \in UserIds /\ users[q.userId].organization_id # org
      [] OTHER -> FALSE

\* The response carries nothing of a row.
NoData(response) ==
  /\ response.id = NULL
  /\ response.entryStatus = NULL
  /\ response.approvedBy = NULL
  /\ response.approvedAt = 0
  /\ response.approved = 0
  /\ response.rows = {}

\* The status each operation answers a foreign reference with.
ForeignCode(route) ==
  CASE route \in {"approve", "screenshot-get"} -> {404}
    [] route = "bulk-approve" -> {400}
    [] OTHER -> {403}

MutatedRefs ==
  {<<"time_logs", time_logs[k].id>> :
     k \in {x \in TimeLogKeys : time_logs[x].present /\ time_logs'[x] # time_logs[x]}}
  \cup {<<"projects", time_logs'[k].project_id>> :
     k \in {x \in TimeLogKeys : ~time_logs[x].present /\ time_logs'[x].present}}
  \cup {<<"tasks", time_logs'[k].task_id>> :
     k \in {x \in TimeLogKeys : ~time_logs[x].present /\ time_logs'[x].present}}
  \cup {<<"time_logs", screenshots'[k].time_log_id>> :
     k \in {x \in ShotKeys : /\ ~screenshots[x].present
                             /\ screenshots'[x].present
                             /\ screenshots'[x].time_log_id # NULL}}

InsertedTimeLogs == {k \in TimeLogKeys : ~time_logs[k].present /\ time_logs'[k].present}
InsertedShots == {k \in ShotKeys : ~screenshots[k].present /\ screenshots'[k].present}

\* C12: a created time entry carries the creating actor's organization and
\* user and references a project and a task of that organization; a created
\* screenshot with a time_log_id references a time entry of its own
\* organization; a create request naming a foreign resource writes no row.
C12_CreatedRowsStayInOrg ==
  [][\A r \in Reqs :
       Steps(r) =>
         /\ \A k \in InsertedTimeLogs :
              LET row == time_logs'[k] IN
                /\ row.organization_id = req[r].user.organizationId
                /\ row.user_id = req[r].user.id
                /\ row.project_id \in DOMAIN projects
                /\ projects[row.project_id].organization_id = row.organization_id
                /\ row.task_id \in DOMAIN tasks
                /\ tasks[row.task_id].organization_id = row.organization_id
         /\ \A k \in InsertedShots :
              LET shot == screenshots'[k] IN
                /\ shot.organization_id = req[r].user.organizationId
                /\ shot.time_log_id # NULL =>
                     \E j \in TimeLogKeys :
                       /\ time_logs[j].present
                       /\ time_logs[j].id = shot.time_log_id
                       /\ time_logs[j].organization_id = shot.organization_id
         /\ (req[r].route \in {"time", "screenshot"} /\ ForeignRef(req[r])) =>
              time_logs' = time_logs /\ screenshots' = screenshots]_vars

\* A time entry was created, and a screenshot upload naming a time entry of
\* another organization was refused.
C12_Witness ==
  /\ \E k \in NewKeys : time_logs[k].present
  /\ \E r \in Reqs :
       /\ pc[r] = "done" /\ req[r].route = "screenshot"
       /\ ForeignRef(req[r]) /\ res[r].status = 403

(***************************************************************************)
(* Approver and approval time of an entry (checked under Spec).            *)
(***************************************************************************)
\* The row has an approver and an approval timestamp exactly when terminal.
ApprovalConsistent(row) ==
  /\ Terminal(row.status) <=> (row.approved_by # NULL /\ row.approved_at # 0)
  /\ row.status = "pending" => (row.approved_by = NULL /\ row.approved_at = 0)
  /\ row.status \in {"pending", "approved", "rejected"}

ReturnedOrgs(r) ==
  CASE req[r].route = "timeline" ->
         {time_logs[k].organization_id : k \in res[r].rows}
    [] req[r].route = "screenshot-get" ->
         {screenshots[k].organization_id : k \in res[r].rows}
    [] OTHER -> {}

C14_CreatedPending ==
  [][\A k \in InsertedTimeLogs :
       /\ time_logs'[k].status = "pending"
       /\ time_logs'[k].approved_by = NULL
       /\ time_logs'[k].approved_at = 0]_vars

\* POST /api/log/time created an entry on the embedded store, and a call of
\* insertTimeLog carrying status approved stored nothing.
C14_Witness ==
  /\ DB_TYPE = "sqlite"
  /\ \E r \in Reqs, k \in NewKeys :
       /\ req[r].route = "time" /\ res[r].status = 201
       /\ time_logs[k].present /\ time_logs[k].status = "pending"
  /\ \E q \in Reqs :
       /\ req[q].route = "insertTimeLog" /\ req[q].action = "approved"
       /\ pc[q] = "done"

\* The plaintext of a stored value.
PlainOf(v) == IF IsCiphertext(v) THEN decrypt(v) ELSE v

\* C15: no time_logs row with end_time <= start_time or duration_ms <= 0
\* exists, on either store.
C15_ValidRangeAndDuration ==
  \A k \in TimeLogKeys :
    time_logs[k].present =>
      /\ TimeOf(PlainOf(time_logs[k].end_time)) > TimeOf(PlainOf(time_logs[k].start_time))
      /\ time_logs[k].duration_ms > 0

\* C16: on the embedded store every write path stores ciphertext in
\* project_id, start_time, end_time and activity_score.
C16_EmbeddedRowsEncrypted ==
  [][DB_TYPE = "sqlite" =>
       \A k \in InsertedTimeLogs :
         \A f \in TimeLogEncryptedFields : IsCiphertext(time_logs'[k][f])]_vars

\* C17: an entry passed to insertTimeLog is stored, and getPendingSyncLogs
\* returns it with the project_id, start_time, end_time and activity_score that
\* were passed in.
C17_SyncRoundTrip ==
  \A r \in Reqs :
    (req[r].route = "insertTimeLog" /\ pc[r] = "done") =>
      /\ ~res[r].thrown
      /\ \E k \in TimeLogKeys : time_logs[k].present /\ time_logs[k].id = res[r].id
      /\ \A q \in Reqs :
           (req[q].route = "getPendingSyncLogs" /\ pc[q] = "done"
              /\ \E k \in res[q].rows : time_logs[k].id = res[r].id) =>
             /\ ~res[q].thrown
             /\ \E rec \in res[q].records :
                  /\ rec.id = res[r].id
                  /\ rec.project_id = req[r].projectId
                  /\ rec.start_time = req[r].startTime
                  /\ rec.end_time = req[r].endTime
                  /\ rec.activity_score = "50"

\* The stored row a reader returned, and its fields that a codec may hold.
ReadRow(route, k) ==
  IF route = "getPendingSyncLogs" THEN time_logs[k] ELSE screenshots[k]

CodecFields ==
  {"project_id", "start_time", "end_time", "activity_score", "captured_at",
   "time_log_id"}

\* C18: for every row a sync reader returns, the fields it passes to
\* decryption are exactly the fields that hold ciphertext in the stored row.
C18_DecryptsWhatWasEncrypted ==
  \A q \in Reqs :
    (req[q].route \in {"getPendingSyncLogs", "getPendingSyncScreenshots"}
       /\ pc[q] = "done") =>
      \A k \in res[q].rows :
        LET row == ReadRow(req[q].route, k) IN
          \A f \in CodecFields \cap DOMAIN row :
            (<<k, f>> \in res[q].decrypted) <=> IsCiphertext(row[f])

(***************************************************************************)
(* Placeholder binding of the two stores (checked under Spec).             *)
(***************************************************************************)
\* The bulk verify query as bulk-approve issues it: its placeholders in the
\* order of the text, and its parameter list.
BulkVerifyPlaceholders(r) == [k \in 1..Len(req[r].timeLogIds) |-> k + 1] \o <<1>>

BulkVerifyParams(r) == <<req[r].user.organizationId>> \o req[r].timeLogIds

\* C19: the embedded store executes a query with the same
\* placeholder-to-parameter binding as the server store, also for the bulk
\* verify query, whose placeholders appear out of numeric order.
C19_SameBinding ==
  \A r \in Reqs :
    pc[r] = "bulk_verify" =>
      sqliteBound(BulkVerifyPlaceholders(r), BulkVerifyParams(r))
        = pgBound(BulkVerifyPlaceholders(r), BulkVerifyParams(r))

(***************************************************************************)
(* Registration (checked under RegisterSpec).                              *)
(***************************************************************************)
\* C20: a registration request on the server store that passed validation
\* has checked out a handle, run BEGIN and then COMMIT or ROLLBACK on it, and
\* released it exactly once when it is answered.
C20_HandleReleasedOnce ==
  \A r \in Reqs :
    (/\ DB_TYPE = "postgresql"
     /\ req[r].route = "register" /\ pc[r] = "done"
     /\ res[r].message # <<"Validation failed">>) =>
      /\ local[r].client # NULL
      /\ local[r].statements \in {<<"BEGIN", "COMMIT">>, <<"BEGIN", "ROLLBACK">>}
      /\ local[r].released = 1

(***************************************************************************)
(* The writes of approve / reject and bulk approve / reject (checked under *)
(* Spec).                                                                  *)
(***************************************************************************)
\* r's bulk UPDATE executes in this step.
BulkWrites(r) ==
  req[r].route = "bulk-approve" /\ pc[r] = "bulk_update" /\ pc'[r] = "done"

OtherColumnsSame(a, b) ==
  [a EXCEPT !.status = b.status, !.approved_by = b.approved_by,
            !.approved_at = b.approved_at, !.updated_at = b.updated_at] = b

C21_AllTablesAfterInitialization ==
  initialization.step = "resolved" => RequiredTables \subseteq dbFile.tables

\* C22: getEncryptionKey returns the development key only when no secret is
\* configured and the deployment is not production; with no secret in
\* production it raises and returns no key; with a secret configured it never
\* returns the development key.
C22_DevelopmentKeyOnlyUnconfigured ==
  \A i \in DOMAIN encryptionKey :
    /\ encryptionKey[i].key = HARDCODED_KEY =>
         ~Truthy(env.ENCRYPTION_KEY) /\ env.NODE_ENV # "production"
    /\ (~Truthy(env.ENCRYPTION_KEY) /\ env.NODE_ENV = "production") =>
         encryptionKey[i].thrown /\ encryptionKey[i].key = NULL
    /\ Truthy(env.ENCRYPTION_KEY) => encryptionKey[i].key # HARDCODED_KEY

\* C22 as amended: getEncryptionKey falls back to the development key (with
\* its warning) exactly when no secret is configured and the deployment is
\* not production; with no secret in production it raises and returns no key;
\* with a secret configured it neither raises nor falls back, and the key it
\* returns is the development key only if the secret is that key's hex digits.
C22_FallbackOnlyOutsideProduction ==
  \A i \in DOMAIN encryptionKey :
    /\ encryptionKey[i].warned <=>
         (~Truthy(env.ENCRYPTION_KEY) /\ env.NODE_ENV # "production")
    /\ encryptionKey[i].warned => encryptionKey[i].key = HARDCODED_KEY
    /\ (~Truthy(env.ENCRYPTION_KEY) /\ env.NODE_ENV = "production") =>
         encryptionKey[i].thrown /\ encryptionKey[i].key = NULL
    /\ Truthy(env.ENCRYPTION_KEY) =>
         /\ ~encryptionKey[i].thrown
         /\ encryptionKey[i].key # NULL
         /\ encryptionKey[i].key = HARDCODED_KEY =>
              env.ENCRYPTION_KEY \in {DevelopmentKeyHex, UpperCaseKeyHex}

\* The key was asked for in production with no secret configured.
C22_Witness ==
  /\ env.NODE_ENV = "production" /\ env.ENCRYPTION_KEY = NULL
  /\ encryptionKey # <<>> /\ encryptionKey[1].thrown

\* C23: with no encryption secret in a production deployment the process
\* ends during startup, on either store selection: it never gets to listen
\* for requests.
C23_MissingSecretStopsStartup ==
  (env.NODE_ENV = "production" /\ ~Truthy(env.ENCRYPTION_KEY)) => server # "listening"

\* C29: in embedded mode no query reaches the engine before
\* initializeDatabase has finished.
C29_NoQueryBeforeInitialized ==
  [][\A r \in Reqs :
       (DB_TYPE = "sqlite" /\ Steps(r) /\ req'[r].route = "query") =>
         initialization.step = "resolved"]_vars

(***************************************************************************)
(* Soft-deleted time entries (checked under DeleteSpec).                   *)
(***************************************************************************)
SoftDeleted(row) == row.present /\ row.deleted_at # 0

C28_RegistrationIsAtomic ==
  [][/\ NoneInFlight' =>
          organizations' = {u.organizationSlug : u \in registeredUsers'}
     /\ \A k \in TimeLogKeys : time_logs[k].present => time_logs'[k].present]_vars

====
